---- MODULE Spec2Model ----
(***************************************************************************)
(* Knowledge-Builder: the note/topic store with its prerequisite relation, *)
(* the deletion cascade of the note controller, the link edits of the      *)
(* graph view, and the two graph derivations of the graph controller.      *)
(*                                                                         *)
(* Identifiers.  MongoDB ObjectIds are unique across collections and are   *)
(* never reused.  Note ids are the positive integers 1..MaxNotes, handed   *)
(* out in creation order; topic ids are the negative integers              *)
(* -1..-MaxTopics, handed out in creation order; 0 stands for a value that *)
(* is not an ObjectId (a malformed string in a request body, or null in    *)
(* the link modal).  A derived node or edge id is a string built from      *)
(* ObjectIds joined by "-"; it is modelled as the sequence of the joined   *)
(* ids, so joining is sequence concatenation.                              *)
(*                                                                         *)
(* budget is the number of requests still to be issued; it bounds the      *)
(* length of the behaviours explored and is no part of the program.        *)
(*                                                                         *)
(* The server runs one handler at a time up to its next await, so requests *)
(* that overlap interleave at their store operations.  calls holds the     *)
(* requests handled that way, each with the position and the local values  *)
(* of its handler; where a request is one step, calls is left alone.       *)
(*                                                                         *)
(* view is the graph view: the graph data and the layout options it was    *)
(* given, and the tree the layout adapter made of them once drawn.         *)
(***************************************************************************)
EXTENDS Integers, Sequences, FiniteSets, TLC

MaxNotes == 3
MaxTopics == 2
MaxOps == 4
MaxDeepOps == 7
MaxLinks == 1
MaxViewOps == 6
MaxCalls == 2
MaxTopicCalls == 3
MaxRetryNotes == 4
MaxInsertNotes == 3
MaxInserts == 1
MaxLayoutNodes == 4
MaxLayoutEdges == 3

NoteIds == 1..MaxNotes
TopicIds == {0 - t : t \in 1..MaxTopics}
\* the names a request body carries, and String.prototype.trim on them
TopicNames == {"", " ", "a", " a", "b"}
Trim(name) == CASE name = " " -> ""
                [] name = " a" -> "a"
                [] OTHER -> name

VARIABLES notes, topics, links, nextNote, nextTopic, budget, last, calls, view

vars == <<notes, topics, links, nextNote, nextTopic, budget, last, calls, view>>

(***************************************************************************)
(* Helpers on sequences.                                                   *)
(***************************************************************************)
Range(s) == {s[i] : i \in 1..Len(s)}

Includes(s, x) == \E i \in 1..Len(s) : s[i] = x

NoDuplicates(s) == \A i, j \in 1..Len(s) : i # j => s[i] # s[j]

RECURSIVE Concat(_)
Concat(ss) == IF ss = <<>> THEN <<>> ELSE Head(ss) \o Concat(Tail(ss))

RECURSIVE Ascending(_)
Ascending(S) ==
  IF S = {} THEN <<>>
  ELSE LET m == CHOOSE x \in S : \A y \in S : x <= y
       IN <<m>> \o Ascending(S \ {m})

RECURSIVE Descending(_)
Descending(S) ==
  IF S = {} THEN <<>>
  ELSE LET m == CHOOSE x \in S : \A y \in S : x >= y
       IN <<m>> \o Descending(S \ {m})

\* [...new Set(list)]: first occurrences, in order
RECURSIVE Unique(_)
Unique(s) ==
  IF s = <<>> THEN <<>>
  ELSE LET r == Unique(SubSeq(s, 1, Len(s) - 1))
       IN IF Includes(r, s[Len(s)]) THEN r ELSE Append(r, s[Len(s)])

\* Request bodies.  A prerequisite list names any set of note ids (stored or
\* not) in ascending order, or one note twice, or a value that is not an
\* ObjectId; a topic list names any set of topic ids (stored or not), or one
\* topic twice.
PrereqInputs ==
  {Ascending(S) : S \in SUBSET NoteIds} \cup {<<n, n>> : n \in NoteIds} \cup {<<0>>}
TopicInputs ==
  {Descending(S) : S \in SUBSET TopicIds} \cup {<<t, t>> : t \in TopicIds}

(***************************************************************************)
(* The store as the queries of the controllers see it.                     *)
(***************************************************************************)
StoredNotes == DOMAIN notes
StoredTopics == DOMAIN topics

\* Note.find(): documents in natural (insertion) order
NoteOrder == Ascending(StoredNotes)
\* Topic.find(): documents in natural (insertion) order
TopicOrder == Descending(StoredTopics)

\* /^[0-9a-fA-F]{24}$/
IsObjectId(id) == id # 0

\* the count of the matching ids of a list, an id listed twice counted twice
CountListed(list) == Len(SelectSeq(list, LAMBDA p : p \in StoredNotes))

\* Note.countDocuments({_id: {$in: list}})
CountNotes(list) == Cardinality(Range(list) \cap StoredNotes)
\* Topic.countDocuments({_id: {$in: list}})
CountTopics(list) == Cardinality(Range(list) \cap StoredTopics)

\* .populate('prerequisites'): references to missing documents are dropped
PopulatePrerequisites(list) == SelectSeq(list, LAMBDA p : p \in StoredNotes)
\* .populate('topics'): references to missing documents are dropped
PopulateTopics(list) == SelectSeq(list, LAMBDA t : t \in StoredTopics)

\* The graph view before it has been given graph data.
NoView == [data |-> [nodes |-> <<>>, edges |-> <<>>],
           options |-> [nodeSpacing |-> 0, levelSpacing |-> 0],
           drawn |-> FALSE,
           tree |-> [nodes |-> <<>>, links |-> <<>>]]

\* What the last request answered: the handler, the document id it was about,
\* its HTTP status and, for a deletion, the two lists the handler worked from.
\* refetch tells whether a graph-view handler went on to call onGraphChange.
Response(op, id, status) ==
  [op |-> op, id |-> id, status |-> status, dependents |-> <<>>, inherited |-> <<>>,
   refetch |-> FALSE]

Init ==
  /\ notes = <<>>
  /\ topics = <<>>
  /\ links = {}
  /\ nextNote = 1
  /\ nextTopic = 1
  /\ budget = MaxOps
  /\ last = Response("none", 0, 0)
  /\ calls = <<>>
  /\ view = NoView

\* the same empty store, with the budget of SpecView
InitView ==
  /\ notes = <<>>
  /\ topics = <<>>
  /\ links = {}
  /\ nextNote = 1
  /\ nextTopic = 1
  /\ budget = MaxViewOps
  /\ last = Response("none", 0, 0)
  /\ calls = <<>>
  /\ view = NoView

\* the empty store, with the budget of SpecTopics
InitTopics ==
  /\ notes = <<>>
  /\ topics = <<>>
  /\ links = {}
  /\ nextNote = 1
  /\ nextTopic = 1
  /\ budget = MaxTopicCalls
  /\ last = Response("none", 0, 0)
  /\ calls = <<>>
  /\ view = NoView

\* a store that createNote requests have filled with a chain: every note but
\* the first lists the note created before it
InitAsync ==
  /\ notes = [n \in NoteIds |->
               [prerequisites |-> IF n = 1 THEN <<>> ELSE <<n - 1>>, topics |-> <<>>]]
  /\ topics = <<>>
  /\ links = {}
  /\ nextNote = MaxNotes + 1
  /\ nextTopic = 1
  /\ budget = MaxCalls
  /\ last = Response("none", 0, 0)
  /\ calls = <<>>
  /\ view = NoView

\* A store for deletions that are tried again: note 2 lists note 1, and every
\* later note lists note 2, the even ones after note 1.
RetryStore ==
  [n \in 1..MaxRetryNotes |->
     [prerequisites |-> IF n = 1 THEN <<>>
                        ELSE IF n = 2 THEN <<1>>
                        ELSE IF n % 2 = 0 THEN <<1, 2>> ELSE <<2>>,
      topics |-> <<>>]]

InitRetry ==
  /\ notes = RetryStore
  /\ topics = <<>>
  /\ links = {}
  /\ nextNote = MaxRetryNotes + 1
  /\ nextTopic = 1
  /\ budget = MaxCalls
  /\ last = Response("none", 0, 0)
  /\ calls = <<>>
  /\ view = NoView

\* Stores built by createNote alone, for the new-note page: every note lists
\* some of the notes created before it, in ascending order.
InsertStores ==
  {[n \in 1..MaxInsertNotes |-> [prerequisites |-> Ascending(f[n]), topics |-> <<>>]] :
     f \in {g \in [1..MaxInsertNotes -> SUBSET (1..MaxInsertNotes)] :
              \A n \in 1..MaxInsertNotes : g[n] \subseteq 1..(n - 1)}}

InitInsert ==
  /\ notes \in InsertStores
  /\ topics = <<>>
  /\ links = {}
  /\ nextNote = MaxInsertNotes + 1
  /\ nextTopic = 1
  /\ budget = MaxInserts
  /\ last = Response("none", 0, 0)
  /\ calls = <<>>
  /\ view = NoView

\* the same empty store, with the budget of SpecDeep
InitDeep ==
  /\ notes = <<>>
  /\ topics = <<>>
  /\ links = {}
  /\ nextNote = 1
  /\ nextTopic = 1
  /\ budget = MaxDeepOps
  /\ last = Response("none", 0, 0)
  /\ calls = <<>>
  /\ view = NoView

\* Graph data handed to the view.  Node ids are 1..k in the order of the node
\* list or its reverse; an edge joins two different ids of 1..MaxLayoutNodes,
\* so an endpoint may be absent from the node list and edges may close a
\* cycle.  The edge list holds up to MaxLayoutEdges distinct edges, in either
\* order.
LayoutIds == 1..MaxLayoutNodes

EdgeCodes ==
  {c \in 0..(Cardinality(LayoutIds) * Cardinality(LayoutIds) - 1) :
     c \div Cardinality(LayoutIds) # c % Cardinality(LayoutIds)}

LayoutEdge(code) ==
  [source |-> (code \div Cardinality(LayoutIds)) + 1,
   target |-> (code % Cardinality(LayoutIds)) + 1]

RECURSIVE EdgeSets(_)
EdgeSets(m) ==
  IF m = 0 THEN {{}}
  ELSE LET smaller == EdgeSets(m - 1)
       IN smaller \cup {S \cup {c} : S \in smaller, c \in EdgeCodes}

EdgeLists ==
  LET orders == UNION {{Ascending(S), Descending(S)} : S \in EdgeSets(MaxLayoutEdges)}
  IN {[i \in 1..Len(o) |-> LayoutEdge(o[i])] : o \in orders}

NodeLists ==
  LET orders == UNION {{Ascending(1..k), Descending(1..k)} : k \in 1..MaxLayoutNodes}
  IN {[i \in 1..Len(o) |-> [id |-> o[i]]] : o \in orders}

\* the options GraphView passes, and a second pair
LayoutOptions ==
  {[nodeSpacing |-> 100, levelSpacing |-> 220], [nodeSpacing |-> 40, levelSpacing |-> 60]}

InitLayout ==
  /\ notes = <<>>
  /\ topics = <<>>
  /\ links = {}
  /\ nextNote = 1
  /\ nextTopic = 1
  /\ budget = 0
  /\ last = Response("none", 0, 0)
  /\ calls = <<>>
  /\ \E nodes \in NodeLists, edges \in EdgeLists, options \in LayoutOptions :
       view = [data |-> [nodes |-> nodes, edges |-> edges], options |-> options,
               drawn |-> FALSE, tree |-> [nodes |-> <<>>, links |-> <<>>]]

(***************************************************************************)
(* Note controller.                                                        *)
(***************************************************************************)
CreateValidPrerequisites(prerequisites) ==
  SelectSeq(prerequisites, LAMBDA p : IsObjectId(p))

createNote(ts, prerequisites) ==
  LET validPrerequisites == CreateValidPrerequisites(prerequisites)
      id == nextNote
  IN
  /\ nextNote <= MaxNotes
  /\ budget > 0
  /\ budget' = budget - 1
  /\ UNCHANGED <<calls, view>>
  /\ UNCHANGED <<topics, links, nextTopic>>
  /\ IF Len(validPrerequisites) > 0
        /\ CountNotes(validPrerequisites) # Len(validPrerequisites)
     THEN /\ last' = Response("createNote", 0, 400)
          /\ UNCHANGED <<notes, nextNote>>
     ELSE IF Len(ts) > 0 /\ CountTopics(ts) # Len(ts)
     THEN /\ last' = Response("createNote", 0, 400)
          /\ UNCHANGED <<notes, nextNote>>
     ELSE /\ notes' = notes @@ (id :> [prerequisites |-> validPrerequisites, topics |-> ts])
          /\ nextNote' = nextNote + 1
          /\ last' = Response("createNote", id, 201)

UpdateValidPrerequisites(noteId, prerequisites) ==
  SelectSeq(prerequisites, LAMBDA p : p # noteId /\ IsObjectId(p))

UpdateStatus(noteId, ts, prerequisites) ==
  LET uniquePrerequisites == Unique(UpdateValidPrerequisites(noteId, prerequisites))
  IN IF noteId \notin StoredNotes THEN 404
     ELSE IF Len(uniquePrerequisites) > 0
             /\ CountNotes(uniquePrerequisites) # Len(uniquePrerequisites) THEN 400
     ELSE IF Len(ts) > 0 /\ CountTopics(ts) # Len(ts) THEN 400
     ELSE 200

\* the store after PUT /api/notes/:id, given the store before it
UpdateStore(store, noteId, ts, prerequisites) ==
  [store EXCEPT ![noteId] =
     [prerequisites |-> Unique(UpdateValidPrerequisites(noteId, prerequisites)),
      topics |-> ts]]

updateNote(noteId, ts, prerequisites) ==
  LET status == UpdateStatus(noteId, ts, prerequisites)
  IN
  /\ budget > 0
  /\ budget' = budget - 1
  /\ UNCHANGED <<calls, view>>
  /\ UNCHANGED <<topics, links, nextNote, nextTopic>>
  /\ last' = Response("updateNote", noteId, status)
  /\ IF status = 200
     THEN notes' = UpdateStore(notes, noteId, ts, prerequisites)
     ELSE UNCHANGED notes

\* Note.find({prerequisites: id})
DependentNotes(id) == SelectSeq(NoteOrder, LAMBDA n : Includes(notes[n].prerequisites, id))

\* the push without its includes() test
PushAll(updatedPrerequisites, deletedNotePrerequisites) ==
  updatedPrerequisites \o deletedNotePrerequisites

RECURSIVE PushMissing(_, _)
PushMissing(updatedPrerequisites, deletedNotePrerequisites) ==
  IF deletedNotePrerequisites = <<>> THEN updatedPrerequisites
  ELSE LET prereqId == Head(deletedNotePrerequisites)
       IN PushMissing(IF Includes(updatedPrerequisites, prereqId)
                      THEN updatedPrerequisites
                      ELSE Append(updatedPrerequisites, prereqId),
                      Tail(deletedNotePrerequisites))

\* the loop body without the inheritance
RemoveOnly(dependentPrerequisites, id, deletedNotePrerequisites) ==
  SelectSeq(dependentPrerequisites, LAMBDA p : p # id)

\* the body of the loop over dependentNotes
UpdatedPrerequisites(dependentPrerequisites, id, deletedNotePrerequisites) ==
  PushMissing(SelectSeq(dependentPrerequisites, LAMBDA p : p # id),
              deletedNotePrerequisites)

\* the notes collection after the loop over dependentNotes and the deletion
NotesAfterDelete(id) ==
  LET deletedNotePrerequisites == notes[id].prerequisites
      dependentNotes == DependentNotes(id)
      rewritten == [n \in StoredNotes |->
                      IF Includes(dependentNotes, n)
                      THEN [notes[n] EXCEPT !.prerequisites =
                              UpdatedPrerequisites(notes[n].prerequisites, id,
                                                   deletedNotePrerequisites)]
                      ELSE notes[n]]
  IN [n \in StoredNotes \ {id} |-> rewritten[n]]

\* Link.deleteMany({$or: [{source: id}, {target: id}]})
LinksAfterDelete(id) == {l \in links : l[1] # id /\ l[2] # id}

\* the handler without its not-found return
deleteNoteUnchecked(id) ==
  /\ budget > 0
  /\ budget' = budget - 1
  /\ UNCHANGED <<topics, nextNote, nextTopic, calls, view>>
  /\ notes' = IF id \in StoredNotes THEN NotesAfterDelete(id) ELSE notes
  /\ links' = LinksAfterDelete(id)
  /\ last' = [Response("deleteNote", id, 200) EXCEPT
                 !.dependents = DependentNotes(id),
                 !.inherited = IF id \in StoredNotes THEN notes[id].prerequisites ELSE <<>>]

deleteNote(id) ==
  /\ budget > 0
  /\ budget' = budget - 1
  /\ UNCHANGED <<calls, view>>
  /\ UNCHANGED <<topics, nextNote, nextTopic>>
  /\ IF id \notin StoredNotes
     THEN /\ last' = Response("deleteNote", id, 404)
          /\ UNCHANGED <<notes, links>>
     ELSE LET deletedNotePrerequisites == notes[id].prerequisites
              dependentNotes == DependentNotes(id)
          IN /\ notes' = NotesAfterDelete(id)
             /\ links' = LinksAfterDelete(id)
             /\ last' = [Response("deleteNote", id, 200) EXCEPT
                            !.dependents = dependentNotes,
                            !.inherited = deletedNotePrerequisites]

(***************************************************************************)
(* Topic controller.                                                       *)
(***************************************************************************)
\* Topic.findOne({name}): the id of the topic of that name, 0 for null
FindTopic(name) ==
  IF \E t \in StoredTopics : topics[t] = name
  THEN CHOOSE t \in StoredTopics : topics[t] = name
  ELSE 0

createTopic(name) ==
  /\ budget > 0
  /\ budget' = budget - 1
  /\ UNCHANGED <<calls, view>>
  /\ UNCHANGED <<notes, links, nextNote>>
  /\ IF Trim(name) = ""
     THEN /\ last' = Response("createTopic", 0, 400)
          /\ UNCHANGED <<topics, nextTopic>>
     ELSE IF \E t \in StoredTopics : topics[t] = Trim(name)
     THEN /\ last' = Response("createTopic", FindTopic(Trim(name)), 200)
          /\ UNCHANGED <<topics, nextTopic>>
     ELSE /\ nextTopic <= MaxTopics
          /\ topics' = topics @@ ((0 - nextTopic) :> Trim(name))
          /\ nextTopic' = nextTopic + 1
          /\ last' = Response("createTopic", 0 - nextTopic, 201)

deleteTopic(id) ==
  /\ budget > 0
  /\ budget' = budget - 1
  /\ UNCHANGED <<calls, view>>
  /\ UNCHANGED <<notes, links, nextNote, nextTopic>>
  /\ IF id \notin StoredTopics
     THEN /\ last' = Response("deleteTopic", id, 404)
          /\ UNCHANGED topics
     ELSE /\ topics' = [t \in StoredTopics \ {id} |-> topics[t]]
          /\ last' = Response("deleteTopic", id, 200)

(***************************************************************************)
(* Graph view: the link modal's save.  One run of the handler is one step: *)
(* the modal is open on the note, and the handler awaits each request      *)
(* before it issues the next.  status is the handler's outcome: 200 when   *)
(* it ran to the end, 0 when it returned after an alert, 500 when a        *)
(* request failed and the catch block ran.  The modal saves only when a    *)
(* prerequisite or a next note is selected.  It builds its two lists from  *)
(* the notes it read when it opened, so the handler is taken with any      *)
(* stored note as either argument: its own checks decide.                  *)
(***************************************************************************)
\* GET /api/notes/:id as the client reads it: populated references, as ids
GetById(store, id) ==
  [prerequisites |-> PopulatePrerequisites(store[id].prerequisites),
   topics |-> PopulateTopics(store[id].topics)]

\* the prerequisite list add-next writes to the next note
NextPrerequisites(existingPrereqIds, currentNotePrereqIds, currentId) ==
  Append(SelectSeq(existingPrereqIds, LAMBDA p : ~Includes(currentNotePrereqIds, p)),
         currentId)

\* the add-prerequisite half: [store after it, outcome]
SavePrerequisite(store, noteId, prerequisiteId) ==
  LET current == GetById(store, noteId)
      existingPrereqIds == current.prerequisites
      updatedPrerequisites == Append(existingPrereqIds, prerequisiteId)
  IN IF prerequisiteId = 0 THEN [store |-> store, status |-> 200]
     ELSE IF prerequisiteId = noteId THEN [store |-> store, status |-> 0]
     ELSE IF Includes(existingPrereqIds, prerequisiteId) THEN [store |-> store, status |-> 0]
     ELSE IF UpdateStatus(noteId, current.topics, updatedPrerequisites) # 200
     THEN [store |-> store, status |-> 500]
     ELSE [store |-> UpdateStore(store, noteId, current.topics, updatedPrerequisites),
           status |-> 200]

\* the add-next half: [store after it, outcome]
SaveNext(store, noteId, nextId) ==
  IF nextId = 0 THEN [store |-> store, status |-> 200]
  ELSE IF nextId = noteId THEN [store |-> store, status |-> 0]
  ELSE IF nextId \notin StoredNotes THEN [store |-> store, status |-> 500]
  ELSE LET updatedCurrentNote == GetById(store, noteId)
           nextNoteDoc == GetById(store, nextId)
           existingPrereqIds == nextNoteDoc.prerequisites
           updatedPrerequisites ==
             NextPrerequisites(existingPrereqIds, updatedCurrentNote.prerequisites, noteId)
       IN IF Includes(existingPrereqIds, noteId) THEN [store |-> store, status |-> 0]
          ELSE IF UpdateStatus(nextId, nextNoteDoc.topics, updatedPrerequisites) # 200
          THEN [store |-> store, status |-> 500]
          ELSE [store |-> UpdateStore(store, nextId, nextNoteDoc.topics, updatedPrerequisites),
                status |-> 200]

handleSaveLinks(noteId, prerequisiteId, nextId) ==
  LET first == SavePrerequisite(notes, noteId, prerequisiteId)
      second == SaveNext(first.store, noteId, nextId)
  IN
  /\ noteId \in StoredNotes
  /\ prerequisiteId \in StoredNotes \cup {0}
  /\ nextId \in StoredNotes \cup {0}
  /\ prerequisiteId # 0 \/ nextId # 0
  /\ budget > 0
  /\ budget' = budget - 1
  /\ UNCHANGED <<calls, view>>
  /\ UNCHANGED <<topics, links, nextNote, nextTopic>>
  /\ IF first.status # 200
     THEN /\ notes' = first.store
          /\ last' = Response("saveLinks", noteId, first.status)
     ELSE /\ notes' = second.store
          /\ last' = [Response("saveLinks", noteId, second.status) EXCEPT
                         !.refetch = (second.status = 200)]

\* the topic modal's save: one PUT with the prerequisites the modal was opened
\* with, then the refresh; a failed request goes to the catch block
handleSaveTopics(noteId, ts) ==
  LET current == GetById(notes, noteId)
      status == UpdateStatus(noteId, ts, current.prerequisites)
  IN
  /\ noteId \in StoredNotes
  /\ budget > 0
  /\ budget' = budget - 1
  /\ UNCHANGED <<calls, view>>
  /\ UNCHANGED <<topics, links, nextNote, nextTopic>>
  /\ IF status = 200
     THEN /\ notes' = UpdateStore(notes, noteId, ts, current.prerequisites)
          /\ last' = [Response("saveTopics", noteId, 200) EXCEPT !.refetch = TRUE]
     ELSE /\ UNCHANGED notes
          /\ last' = Response("saveTopics", noteId, 500)

\* the hover menu's delete on a note node: one DELETE, then the refresh
handleDeleteNote(noteId) ==
  /\ noteId \in StoredNotes
  /\ budget > 0
  /\ budget' = budget - 1
  /\ UNCHANGED <<calls, view>>
  /\ UNCHANGED <<topics, nextNote, nextTopic>>
  /\ notes' = NotesAfterDelete(noteId)
  /\ links' = LinksAfterDelete(noteId)
  /\ last' = [Response("deleteFromGraph", noteId, 200) EXCEPT
                 !.dependents = DependentNotes(noteId),
                 !.inherited = notes[noteId].prerequisites,
                 !.refetch = TRUE]

(***************************************************************************)
(* PUT /api/notes/:id is called by the pages with the fields the user did  *)
(* not edit sent back as GET /api/notes/:id returned them: a request       *)
(* changes the topics or the prerequisites.                                *)
(***************************************************************************)
KeptPrerequisites(n) ==
  IF n \in StoredNotes THEN PopulatePrerequisites(notes[n].prerequisites) ELSE <<>>

KeptTopics(n) ==
  IF n \in StoredNotes THEN PopulateTopics(notes[n].topics) ELSE <<>>

(***************************************************************************)
(* Link controller.  A link record is the pair (source, target).           *)
(***************************************************************************)
createLink(source, target) ==
  /\ budget > 0
  /\ budget' = budget - 1
  /\ UNCHANGED <<calls, view>>
  /\ UNCHANGED <<notes, topics, nextNote, nextTopic>>
  /\ IF source \notin StoredNotes \/ target \notin StoredNotes
     THEN /\ last' = Response("createLink", 0, 404)
          /\ UNCHANGED links
     ELSE IF <<source, target>> \in links
     THEN /\ last' = Response("createLink", 0, 400)
          /\ UNCHANGED links
     ELSE /\ Cardinality(links) < MaxLinks
          /\ links' = links \cup {<<source, target>>}
          /\ last' = Response("createLink", 0, 201)

deleteLink(link) ==
  /\ budget > 0
  /\ budget' = budget - 1
  /\ UNCHANGED <<calls, view>>
  /\ UNCHANGED <<notes, topics, nextNote, nextTopic>>
  /\ IF link \notin links
     THEN /\ last' = Response("deleteLink", 0, 404)
          /\ UNCHANGED links
     ELSE /\ links' = links \ {link}
          /\ last' = Response("deleteLink", 0, 200)

(***************************************************************************)
(* Graph controller.  Both derivations are functions of the store.         *)
(***************************************************************************)
Edge(id, source, target) == [id |-> id, source |-> source, target |-> target]

Node(id, type, noteId) == [id |-> id, type |-> type, noteId |-> noteId]

\* Note.find({topics: topicId})
TopicNotes(topicId) == SelectSeq(NoteOrder, LAMBDA n : Includes(notes[n].topics, topicId))

\* the edges the loop over the member notes pushes for one note
TopicNoteEdges(topicId, n) ==
  LET prereqs == PopulatePrerequisites(notes[n].prerequisites)
  IN IF Len(prereqs) > 0
     THEN [i \in 1..Len(prereqs) |-> Edge(<<prereqs[i], n>>, <<prereqs[i]>>, <<n>>)]
     ELSE <<Edge(<<topicId, n>>, <<topicId>>, <<n>>)>>

\* the prerequisite nodes the loop adds to nodeMap, in the order it adds them
TopicExternalIds(topicId) ==
  LET members == TopicNotes(topicId)
      all == Concat([i \in 1..Len(members) |->
                       PopulatePrerequisites(notes[members[i]].prerequisites)])
  IN Unique(SelectSeq(all, LAMBDA p : ~Includes(members, p)))

\* the derivation without its post-pass
NoFallbackPass(topicId, nodes, topicNoteIds, edges) == edges

\* nodeMap.forEach of the post-pass, over the nodes still to visit
RECURSIVE FallbackPass(_, _, _, _)
FallbackPass(topicId, nodes, topicNoteIds, edges) ==
  IF nodes = <<>> THEN edges
  ELSE LET node == Head(nodes)
           hasIncomingEdge == \E i \in 1..Len(edges) : edges[i].target = node.id
       IN FallbackPass(topicId, Tail(nodes), topicNoteIds,
            IF node.type = "note" /\ node.id \notin topicNoteIds /\ ~hasIncomingEdge
            THEN Append(edges, Edge(<<topicId>> \o node.id, <<topicId>>, node.id))
            ELSE edges)

\* GET /api/graph/:topicId.  prereqEdges is the edge list as the loop over the
\* member notes leaves it, before the post-pass.
getGraphByTopic(topicId) ==
  IF topicId \notin StoredTopics
  THEN [status |-> 404, nodes |-> <<>>, edges |-> <<>>, prereqEdges |-> <<>>]
  ELSE LET members == TopicNotes(topicId)
           externals == TopicExternalIds(topicId)
           nodes == <<Node(<<topicId>>, "topic", 0)>>
                    \o [i \in 1..Len(members) |-> Node(<<members[i]>>, "note", members[i])]
                    \o [i \in 1..Len(externals) |-> Node(<<externals[i]>>, "note", externals[i])]
           topicNoteIds == {<<members[i]>> : i \in 1..Len(members)}
           prereqEdges == Concat([i \in 1..Len(members) |-> TopicNoteEdges(topicId, members[i])])
       IN [status |-> 200, nodes |-> nodes,
           edges |-> FallbackPass(topicId, nodes, topicNoteIds, prereqEdges),
           prereqEdges |-> prereqEdges]

\* one node per note, under its first topic only
GraphNoteNodesOnce(n) ==
  IF notes[n].topics = <<>> THEN <<>>
  ELSE <<Node(<<n, notes[n].topics[1]>>, "note", n)>>

\* the nodes pushed for one note: one per entry of note.topics
GraphNoteNodes(n) ==
  [i \in 1..Len(notes[n].topics) |-> Node(<<n, notes[n].topics[i]>>, "note", n)]

\* the topic edge pushed whether or not a same-topic prerequisite exists
GraphNoteTopicEdgesBoth(n, topicId) ==
  LET nodeId == <<n, topicId>>
      prereqsInSameTopic ==
        SelectSeq(PopulatePrerequisites(notes[n].prerequisites),
                  LAMBDA p : Includes(notes[p].topics, topicId))
  IN [i \in 1..Len(prereqsInSameTopic) |->
        Edge(<<"prereq", prereqsInSameTopic[i], topicId>> \o nodeId,
             <<prereqsInSameTopic[i], topicId>>, nodeId)]
     \o <<Edge(<<"topic", topicId>> \o nodeId, <<topicId>>, nodeId)>>

\* the edges pushed for one note under one of its topics
GraphNoteTopicEdges(n, topicId) ==
  LET nodeId == <<n, topicId>>
      validPrereqs == PopulatePrerequisites(notes[n].prerequisites)
      prereqsInSameTopic ==
        SelectSeq(validPrereqs, LAMBDA p : Includes(notes[p].topics, topicId))
  IN IF Len(prereqsInSameTopic) > 0
     THEN [i \in 1..Len(prereqsInSameTopic) |->
             LET prereqNodeId == <<prereqsInSameTopic[i], topicId>>
             IN Edge(<<"prereq">> \o prereqNodeId \o nodeId, prereqNodeId, nodeId)]
     ELSE <<Edge(<<"topic", topicId>> \o nodeId, <<topicId>>, nodeId)>>

\* GET /api/graph
getGraph ==
  [nodes |-> [i \in 1..Len(TopicOrder) |-> Node(<<TopicOrder[i]>>, "topic", 0)]
             \o Concat([i \in 1..Len(NoteOrder) |-> GraphNoteNodes(NoteOrder[i])]),
   edges |-> Concat([i \in 1..Len(NoteOrder) |->
               LET n == NoteOrder[i]
               IN Concat([j \in 1..Len(notes[n].topics) |->
                            GraphNoteTopicEdges(n, notes[n].topics[j])])])]

(***************************************************************************)
(* Layout adapter: D3TreeLayoutAdapter.toD3Tree.  An input node is a       *)
(* record with its id; a positioned node is the input node with x and y.   *)
(* Undefined is the id of a positioned node spread from a missing map      *)
(* entry.                                                                  *)
(***************************************************************************)
Undefined == 0

\* childrenMap.get(id) || []
ChildrenOf(edges, id) ==
  LET out == SelectSeq(edges, LAMBDA e : e.source = id)
  IN [i \in 1..Len(out) |-> out[i].target]

\* parentsMap.has(id): some edge points at id
HasParent(edges, id) == \E i \in 1..Len(edges) : edges[i].target = id

RootNodes(data) == SelectSeq(data.nodes, LAMBDA n : ~HasParent(data.edges, n.id))

\* a traversal that takes the newest entry first
RECURSIVE TraverseDepthFirst(_, _, _)
TraverseDepthFirst(edges, queue, treeNodes) ==
  IF queue = <<>> THEN treeNodes
  ELSE LET entry == Head(queue)
           visitedInThisTree == {treeNodes[i].id : i \in 1..Len(treeNodes)}
       IN IF entry.id \in visitedInThisTree
          THEN TraverseDepthFirst(edges, Tail(queue), treeNodes)
          ELSE LET children ==
                     SelectSeq(ChildrenOf(edges, entry.id),
                               LAMBDA c : c \notin visitedInThisTree \cup {entry.id})
               IN TraverseDepthFirst(edges,
                                     [i \in 1..Len(children) |->
                                        [id |-> children[i], level |-> entry.level + 1]]
                                       \o Tail(queue),
                                     Append(treeNodes, entry))

\* the while loop over the queue; treeNodes is the map in insertion order
RECURSIVE Traverse(_, _, _)
Traverse(edges, queue, treeNodes) ==
  IF queue = <<>> THEN treeNodes
  ELSE LET entry == Head(queue)
           visitedInThisTree == {treeNodes[i].id : i \in 1..Len(treeNodes)}
       IN IF entry.id \in visitedInThisTree
          THEN Traverse(edges, Tail(queue), treeNodes)
          ELSE LET children ==
                     SelectSeq(ChildrenOf(edges, entry.id),
                               LAMBDA c : c \notin visitedInThisTree \cup {entry.id})
               IN Traverse(edges,
                           Tail(queue) \o [i \in 1..Len(children) |->
                                             [id |-> children[i], level |-> entry.level + 1]],
                           Append(treeNodes, entry))

\* levelGroups: the levels in the order the map got them, each with its ids
LevelGroups(treeNodes) ==
  LET levels == Unique([i \in 1..Len(treeNodes) |-> treeNodes[i].level])
  IN [k \in 1..Len(levels) |->
        [level |-> levels[k],
         nodeIds |-> LET group == SelectSeq(treeNodes, LAMBDA t : t.level = levels[k])
                     IN [i \in 1..Len(group) |-> group[i].id]]]

Max(a, b) == IF a >= b THEN a ELSE b

RECURSIVE MaxNodesInLevel(_)
MaxNodesInLevel(levelGroups) ==
  IF levelGroups = <<>> THEN 0
  ELSE Max(Len(Head(levelGroups).nodeIds), MaxNodesInLevel(Tail(levelGroups)))

\* a map that answers every id with a node of that id
AnyId(data, nodeId) == nodeId

\* nodeMap.get(nodeId) spread into the positioned node
OriginalId(data, nodeId) ==
  IF \E i \in 1..Len(data.nodes) : data.nodes[i].id = nodeId THEN nodeId ELSE Undefined

\* a layout that positions a node again under every root that reaches it
PositionedAgain(positionedNodes, nodeId) == FALSE

\* positionedNodes.has(nodeId)
AlreadyPositioned(positionedNodes, nodeId) == nodeId \in positionedNodes

\* the nodes pushed for one level of a tree.  The ids of one traversal are
\* distinct, so the set positionedNodes is tested as it stood when the root's
\* turn began.  Each node keeps the key it was positioned under.
LevelNodes(data, options, positionedNodes, treeStartY, treeHeight, nodeIds, level) ==
  LET count == Len(nodeIds)
      totalHeight == (count - 1) * options.nodeSpacing
      startY == treeStartY + (treeHeight - totalHeight) \div 2
      placed == SelectSeq([index \in 1..count |-> index],
                  LAMBDA index : ~AlreadyPositioned(positionedNodes, nodeIds[index]))
  IN [j \in 1..Len(placed) |->
        [id |-> OriginalId(data, nodeIds[placed[j]]),
         key |-> nodeIds[placed[j]],
         x |-> 100 + level * options.levelSpacing,
         y |-> startY + (placed[j] - 1) * options.nodeSpacing]]

\* levelGroups.forEach of the positioning, with the height of the tree
PlaceLevels(data, options, positionedNodes, treeStartY, treeHeight, levelGroups) ==
  [treeHeight |-> treeHeight,
   nodes |-> Concat([k \in 1..Len(levelGroups) |->
               LevelNodes(data, options, positionedNodes, treeStartY, treeHeight,
                          levelGroups[k].nodeIds, levelGroups[k].level)])]

TreeHeight(options, levelGroups) ==
  Max(MaxNodesInLevel(levelGroups) * options.nodeSpacing, options.nodeSpacing)

\* the tree of one root, from the level groups of its traversal
GroupedTree(data, options, positionedNodes, currentY, levelGroups) ==
  PlaceLevels(data, options, positionedNodes, currentY,
              TreeHeight(options, levelGroups), levelGroups)

\* the body of rootNodes.forEach for one root: its height and the nodes it
\* pushes
TreeNodes(data, options, rootNode, positionedNodes, currentY) ==
  GroupedTree(data, options, positionedNodes, currentY,
              LevelGroups(Traverse(data.edges, <<[id |-> rootNode.id, level |-> 0]>>, <<>>)))

\* every tree laid out from the same top
SameTreeY(currentY, treeHeight, nodesAddedInThisTree) == currentY

\* currentY after a tree: moved past the tree and the gap if the tree added a
\* node
NextTreeY(currentY, treeHeight, nodesAddedInThisTree) ==
  IF nodesAddedInThisTree > 0 THEN currentY + treeHeight + 80 ELSE currentY

\* rootNodes.forEach: the positioned nodes in the order they were pushed
RECURSIVE PositionRoots(_, _, _, _, _, _)
RECURSIVE AfterTree(_, _, _, _, _, _, _)
AfterTree(data, options, rootNodes, nodes, positionedNodes, currentY, tree) ==
  PositionRoots(data, options, rootNodes,
                nodes \o tree.nodes,
                positionedNodes \cup {tree.nodes[i].key : i \in 1..Len(tree.nodes)},
                NextTreeY(currentY, tree.treeHeight, Len(tree.nodes)))

PositionRoots(data, options, rootNodes, nodes, positionedNodes, currentY) ==
  IF rootNodes = <<>> THEN nodes
  ELSE AfterTree(data, options, Tail(rootNodes), nodes, positionedNodes, currentY,
                 TreeNodes(data, options, Head(rootNodes), positionedNodes, currentY))

\* nodeLookup.has(id)
Positioned(nodes, id) == \E i \in 1..Len(nodes) : nodes[i].id = id

\* nodeLookup.get(id): the last positioned node that carries the id
Lookup(nodes, id) ==
  LET hits == SelectSeq(nodes, LAMBDA n : n.id = id)
  IN hits[Len(hits)]

\* the edges mapped to the positioned nodes and filtered
Links(edges, nodes) ==
  LET found == SelectSeq(edges,
                         LAMBDA e : Positioned(nodes, e.source) /\ Positioned(nodes, e.target))
  IN [i \in 1..Len(found) |->
        [source |-> Lookup(nodes, found[i].source),
         target |-> Lookup(nodes, found[i].target)]]

\* the positioned nodes as records of the output
OutputNodes(positioned) ==
  [i \in 1..Len(positioned) |->
     [id |-> positioned[i].id, x |-> positioned[i].x, y |-> positioned[i].y]]

Output(data, nodes) == [nodes |-> nodes, links |-> Links(data.edges, nodes)]

toD3Tree(data, options) ==
  IF Len(data.nodes) = 0 THEN [nodes |-> <<>>, links |-> <<>>]
  ELSE Output(data, OutputNodes(PositionRoots(data, options, RootNodes(data), <<>>, {}, 100)))

\* the effect that draws the graph: the adapter is applied to the data the
\* view was given
layout ==
  /\ ~view.drawn
  /\ Len(view.data.nodes) > 0
  /\ view' = [view EXCEPT !.drawn = TRUE, !.tree = toD3Tree(view.data, view.options)]
  /\ UNCHANGED <<notes, topics, links, nextNote, nextTopic, budget, last, calls>>

(***************************************************************************)
(* The same handlers of the note and topic controllers, one step per       *)
(* await.  A call is a request being handled: pc is the await its handler  *)
(* stands at, the other fields are the handler's local values, status and  *)
(* result are its answer once pc is "done".                                *)
(***************************************************************************)
Call(op, id, name, ts, prerequisites) ==
  [op |-> op, pc |-> "findOne", id |-> id, name |-> name, topics |-> ts,
   prerequisites |-> prerequisites, inherited |-> <<>>, dependents |-> <<>>,
   i |-> 1, status |-> 0, result |-> 0, caught |-> FALSE]

Done(call, status) == [call EXCEPT !.pc = "done", !.status = status]

startDeleteNote(id) ==
  /\ budget > 0
  /\ budget' = budget - 1
  /\ calls' = Append(calls, Call("deleteNote", id, "", <<>>, <<>>))
  /\ UNCHANGED <<notes, topics, links, nextNote, nextTopic, last, view>>

\* Note.find({prerequisites: id}) as the documents it returned
DependentDocuments(id) ==
  LET dependentNotes == DependentNotes(id)
  IN [k \in 1..Len(dependentNotes) |->
        [id |-> dependentNotes[k], prerequisites |-> notes[dependentNotes[k]].prerequisites]]

stepDeleteNote(c) ==
  LET call == calls[c]
  IN
  /\ c \in 1..Len(calls)
  /\ call.op = "deleteNote"
  /\ UNCHANGED <<topics, nextNote, nextTopic, budget, last, view>>
  /\ CASE call.pc = "findOne" ->
            /\ calls' = [calls EXCEPT ![c] =
                 IF call.id \notin StoredNotes THEN Done(call, 404)
                 ELSE [call EXCEPT !.pc = "find",
                                   !.inherited = notes[call.id].prerequisites]]
            /\ UNCHANGED <<notes, links>>
       [] call.pc = "find" ->
            LET dependentNotes == DependentDocuments(call.id)
            IN /\ calls' = [calls EXCEPT ![c] =
                    [call EXCEPT !.dependents = dependentNotes,
                                 !.pc = IF dependentNotes = <<>> THEN "delete" ELSE "update"]]
               /\ UNCHANGED <<notes, links>>
       [] call.pc = "update" ->
            LET dependentNote == call.dependents[call.i]
                updatedPrerequisites ==
                  UpdatedPrerequisites(dependentNote.prerequisites, call.id, call.inherited)
            IN /\ notes' = IF dependentNote.id \in StoredNotes
                           THEN [notes EXCEPT ![dependentNote.id].prerequisites =
                                   updatedPrerequisites]
                           ELSE notes
               /\ calls' = [calls EXCEPT ![c] =
                    [call EXCEPT !.i = call.i + 1,
                                 !.pc = IF call.i = Len(call.dependents)
                                        THEN "delete" ELSE "update"]]
               /\ UNCHANGED links
       [] call.pc = "delete" ->
            /\ notes' = [n \in StoredNotes \ {call.id} |-> notes[n]]
            /\ calls' = [calls EXCEPT ![c] = [call EXCEPT !.pc = "deleteMany"]]
            /\ UNCHANGED links
       [] call.pc = "deleteMany" ->
            /\ links' = LinksAfterDelete(call.id)
            /\ calls' = [calls EXCEPT ![c] = Done(call, 200)]
            /\ UNCHANGED notes
       [] OTHER -> FALSE

\* a catch block that writes the documents of the earlier dependents back
RollbackStore(call) ==
  [n \in StoredNotes |->
     IF \E k \in 1..(call.i - 1) : call.dependents[k].id = n
     THEN [notes[n] EXCEPT !.prerequisites =
             (CHOOSE d \in Range(call.dependents) : d.id = n).prerequisites]
     ELSE notes[n]]

\* the notes collection after the catch block: next(error) writes nothing
FailedUpdateStore(call) == notes

\* the findByIdAndUpdate of one dependent rejects
failDeleteNote(c) ==
  LET call == calls[c]
  IN
  /\ c \in 1..Len(calls)
  /\ call.op = "deleteNote"
  /\ call.pc = "update"
  /\ notes' = FailedUpdateStore(call)
  /\ calls' = [calls EXCEPT ![c] = Done(call, 500)]
  /\ UNCHANGED <<topics, links, nextNote, nextTopic, budget, last, view>>

\* a DELETE /api/notes/:id sent when every earlier request has been answered
startDeleteNoteAlone(id) ==
  /\ \A c \in 1..Len(calls) : calls[c].pc = "done"
  /\ startDeleteNote(id)

startUpdateNote(noteId, prerequisites) ==
  /\ budget > 0
  /\ budget' = budget - 1
  /\ calls' = Append(calls, Call("updateNote", noteId, "", KeptTopics(noteId), prerequisites))
  /\ UNCHANGED <<notes, topics, links, nextNote, nextTopic, last, view>>

stepUpdateNote(c) ==
  LET call == calls[c]
      uniquePrerequisites == Unique(UpdateValidPrerequisites(call.id, call.prerequisites))
      afterPrerequisites == IF Len(call.topics) > 0 THEN "countTopics" ELSE "write"
  IN
  /\ c \in 1..Len(calls)
  /\ call.op = "updateNote"
  /\ UNCHANGED <<topics, links, nextNote, nextTopic, budget, last, view>>
  /\ CASE call.pc = "findOne" ->
            /\ calls' = [calls EXCEPT ![c] =
                 IF call.id \notin StoredNotes THEN Done(call, 404)
                 ELSE [call EXCEPT !.pc = IF Len(uniquePrerequisites) > 0
                                          THEN "countPrerequisites"
                                          ELSE afterPrerequisites]]
            /\ UNCHANGED notes
       [] call.pc = "countPrerequisites" ->
            /\ calls' = [calls EXCEPT ![c] =
                 IF CountNotes(uniquePrerequisites) # Len(uniquePrerequisites)
                 THEN Done(call, 400)
                 ELSE [call EXCEPT !.pc = afterPrerequisites]]
            /\ UNCHANGED notes
       [] call.pc = "countTopics" ->
            /\ calls' = [calls EXCEPT ![c] =
                 IF CountTopics(call.topics) # Len(call.topics)
                 THEN Done(call, 400)
                 ELSE [call EXCEPT !.pc = "write"]]
            /\ UNCHANGED notes
       [] call.pc = "write" ->
            /\ notes' = IF call.id \in StoredNotes
                        THEN UpdateStore(notes, call.id, call.topics, call.prerequisites)
                        ELSE notes
            /\ calls' = [calls EXCEPT ![c] = Done(call, 200)]
       [] OTHER -> FALSE

startCreateTopic(name) ==
  /\ budget > 0
  /\ budget' = budget - 1
  /\ calls' = Append(calls, IF Trim(name) = ""
                            THEN Done(Call("createTopic", 0, name, <<>>, <<>>), 400)
                            ELSE Call("createTopic", 0, name, <<>>, <<>>))
  /\ UNCHANGED <<notes, topics, links, nextNote, nextTopic, last, view>>

\* a collection without the unique index on name
NoUniqueIndex(name) == FALSE

\* Topic.create rejects with code 11000: the unique index holds the name
DuplicateKey(name) == \E t \in StoredTopics : topics[t] = name

stepCreateTopic(c) ==
  LET call == calls[c]
      name == Trim(call.name)
  IN
  /\ c \in 1..Len(calls)
  /\ call.op = "createTopic"
  /\ UNCHANGED <<notes, links, nextNote, budget, last, view>>
  /\ CASE call.pc = "findOne" ->
            /\ calls' = [calls EXCEPT ![c] =
                 IF FindTopic(name) # 0
                 THEN [Done(call, 200) EXCEPT !.result = FindTopic(name)]
                 ELSE [call EXCEPT !.pc = "create"]]
            /\ UNCHANGED <<topics, nextTopic>>
       [] call.pc = "create" ->
            IF DuplicateKey(name)
            THEN /\ calls' = [calls EXCEPT ![c] =
                      [call EXCEPT !.pc = "fallback", !.caught = TRUE]]
                 /\ UNCHANGED <<topics, nextTopic>>
            ELSE /\ nextTopic <= MaxTopics
                 /\ topics' = topics @@ ((0 - nextTopic) :> name)
                 /\ nextTopic' = nextTopic + 1
                 /\ calls' = [calls EXCEPT ![c] =
                      [Done(call, 201) EXCEPT !.result = 0 - nextTopic]]
       [] call.pc = "fallback" ->
            /\ calls' = [calls EXCEPT ![c] =
                 IF FindTopic(name) # 0
                 THEN [Done(call, 200) EXCEPT !.result = FindTopic(name)]
                 ELSE Done(call, 500)]
            /\ UNCHANGED <<topics, nextTopic>>
       [] OTHER -> FALSE

(***************************************************************************)
(* Insert-previous: the graph view opens the new-note page for a note, the *)
(* page loads that note's prerequisites in an effect, and the save button  *)
(* runs handleSaveDirect.  The page is a call record: id is prerequisiteOf,*)
(* topics the topics parameter, prerequisites the state                    *)
(* initialPrerequisites, pc the position of loadPrerequisite and status 1  *)
(* once the save button has been used.                                     *)
(***************************************************************************)
handleAddNotePrevious(noteId) ==
  /\ budget > 0
  /\ noteId \in StoredNotes
  /\ \A c \in 1..Len(calls) : calls[c].pc = "done"
  /\ budget' = budget - 1
  /\ calls' = Append(calls,
       [Call("NewNotePage", noteId, "", GetById(notes, noteId).topics, <<>>)
          EXCEPT !.pc = "getById"])
  /\ UNCHANGED <<notes, topics, links, nextNote, nextTopic, last, view>>

\* the effect's getById resolves: setInitialPrerequisites, or the catch block
loadPrerequisite(c) ==
  LET page == calls[c]
  IN
  /\ c \in 1..Len(calls)
  /\ page.op = "NewNotePage"
  /\ page.pc = "getById"
  /\ calls' = [calls EXCEPT ![c] =
       IF page.id \in StoredNotes
       THEN [page EXCEPT !.pc = "done",
                         !.prerequisites = GetById(notes, page.id).prerequisites]
       ELSE [page EXCEPT !.pc = "done"]]
  /\ UNCHANGED <<notes, topics, links, nextNote, nextTopic, budget, last, view>>

\* the save button with fromGraph=true: handleSaveDirect starts with the
\* initialPrerequisites of the render the click happened in
handleSaveClick(c) ==
  LET page == calls[c]
  IN
  /\ c \in 1..Len(calls)
  /\ page.op = "NewNotePage"
  /\ page.status = 0
  /\ calls' = Append([calls EXCEPT ![c] = [page EXCEPT !.status = 1]],
                     [Call("handleSaveDirect", page.id, "", page.topics, page.prerequisites)
                        EXCEPT !.pc = "create"])
  /\ UNCHANGED <<notes, topics, links, nextNote, nextTopic, budget, last, view>>

\* handleSaveDirect, one step per await: notesApi.create, then getById and
\* update of the existing note inside the inner try
handleSaveDirect(c) ==
  LET call == calls[c]
  IN
  /\ c \in 1..Len(calls)
  /\ call.op = "handleSaveDirect"
  /\ UNCHANGED <<topics, links, nextTopic, budget, last, view>>
  /\ CASE call.pc = "create" ->
            LET validPrerequisites == CreateValidPrerequisites(call.prerequisites)
                rejected ==
                  \/ /\ Len(validPrerequisites) > 0
                     /\ CountNotes(validPrerequisites) # Len(validPrerequisites)
                  \/ Len(call.topics) > 0 /\ CountTopics(call.topics) # Len(call.topics)
            IN IF rejected
               THEN /\ calls' = [calls EXCEPT ![c] = Done(call, 500)]
                    /\ UNCHANGED <<notes, nextNote>>
               ELSE /\ notes' = notes @@ (nextNote :> [prerequisites |-> validPrerequisites,
                                                      topics |-> call.topics])
                    /\ nextNote' = nextNote + 1
                    /\ calls' = [calls EXCEPT ![c] =
                         [call EXCEPT !.result = nextNote, !.pc = "getById"]]
       [] call.pc = "getById" ->
            /\ calls' = [calls EXCEPT ![c] =
                 IF call.id \in StoredNotes
                 THEN [call EXCEPT !.topics = GetById(notes, call.id).topics, !.pc = "update"]
                 ELSE Done(call, 200)]
            /\ UNCHANGED <<notes, nextNote>>
       [] call.pc = "update" ->
            /\ notes' = IF UpdateStatus(call.id, call.topics, <<call.result>>) = 200
                        THEN UpdateStore(notes, call.id, call.topics, <<call.result>>)
                        ELSE notes
            /\ calls' = [calls EXCEPT ![c] = Done(call, 200)]
            /\ UNCHANGED nextNote
       [] OTHER -> FALSE

(***************************************************************************)
(* Specifications.  Spec takes every request; SpecDeep follows fewer kinds *)
(* of request (one topic, prerequisite lists of at most one id, no link    *)
(* modal) for more steps; SpecView follows the handlers of the graph view; *)
(* SpecAsync and SpecTopics follow requests that overlap, one step per     *)
(* await, the first over the notes of a chain, the second over topics;     *)
(* SpecRetry follows deletions sent one after the other that may fail part *)
(* way; SpecInsert follows the new-note page opened from the graph;        *)
(* SpecLayout applies the layout adapter to graph data.                    *)
(***************************************************************************)
Next ==
  \/ \E ts \in TopicInputs, ps \in PrereqInputs : createNote(ts, ps)
  \/ \E n \in NoteIds, ts \in TopicInputs : updateNote(n, ts, KeptPrerequisites(n))
  \/ \E n \in NoteIds, ps \in PrereqInputs : updateNote(n, KeptTopics(n), ps)
  \/ \E n \in NoteIds : deleteNote(n)
  \/ \E n \in NoteIds, p \in 0..MaxNotes, x \in 0..MaxNotes : handleSaveLinks(n, p, x)
  \/ \E name \in TopicNames : createTopic(name)
  \/ \E t \in TopicIds : deleteTopic(t)
  \/ \E s \in NoteIds, t \in NoteIds : createLink(s, t)
  \/ \E s \in NoteIds, t \in NoteIds : deleteLink(<<s, t>>)

Spec == Init /\ [][Next]_vars

NextDeep ==
  \/ \E ts \in {<<>>, <<0 - 1>>}, ps \in {<<>>} \cup {<<p>> : p \in NoteIds} : createNote(ts, ps)
  \/ \E n \in NoteIds, ps \in {<<>>} \cup {<<p>> : p \in NoteIds} : updateNote(n, KeptTopics(n), ps)
  \/ \E n \in NoteIds : deleteNote(n)
  \/ createTopic("a")

SpecDeep == InitDeep /\ [][NextDeep]_vars

\* the graph view: notes are created from the new-note page, everything else
\* is done from the hover menu of a note node
NextView ==
  \/ \E ts \in {<<>>, <<0 - 1>>}, ps \in {<<>>} \cup {<<p>> : p \in NoteIds} : createNote(ts, ps)
  \/ createTopic("a")
  \/ \E n \in NoteIds, p \in 0..MaxNotes, x \in 0..MaxNotes : handleSaveLinks(n, p, x)
  \/ \E n \in NoteIds, ts \in {<<>>, <<0 - 1>>} : handleSaveTopics(n, ts)
  \/ \E n \in NoteIds : handleDeleteNote(n)

SpecView == InitView /\ [][NextView]_vars

\* overlapping DELETE and PUT requests on the notes of a chain
NextAsync ==
  \/ \E n \in NoteIds : startDeleteNote(n)
  \/ \E c \in 1..MaxCalls : stepDeleteNote(c)
  \/ \E c \in 1..MaxCalls : failDeleteNote(c)
  \/ \E n \in NoteIds, ps \in {<<>>} \cup {<<p>> : p \in NoteIds} : startUpdateNote(n, ps)
  \/ \E c \in 1..MaxCalls : stepUpdateNote(c)

SpecAsync == InitAsync /\ [][NextAsync]_vars

\* overlapping POST /api/topics requests
NextTopics ==
  \/ \E name \in TopicNames : startCreateTopic(name)
  \/ \E c \in 1..MaxTopicCalls : stepCreateTopic(c)

SpecTopics == InitTopics /\ [][NextTopics]_vars

\* DELETE /api/notes/:id requests, one after the other, that may fail part way
NextRetry ==
  \/ \E n \in 1..MaxRetryNotes : startDeleteNoteAlone(n)
  \/ \E c \in 1..MaxCalls : stepDeleteNote(c)
  \/ \E c \in 1..MaxCalls : failDeleteNote(c)

SpecRetry == InitRetry /\ [][NextRetry]_vars

\* insert-previous from the graph, the load and the save in any order
NextInsert ==
  \/ \E n \in 1..(MaxInsertNotes + MaxInserts) : handleAddNotePrevious(n)
  \/ \E c \in 1..(2 * MaxInserts) : loadPrerequisite(c)
  \/ \E c \in 1..(2 * MaxInserts) : handleSaveClick(c)
  \/ \E c \in 1..(2 * MaxInserts) : handleSaveDirect(c)

SpecInsert == InitInsert /\ [][NextInsert]_vars

\* the view draws the data it was given
NextLayout == layout

SpecLayout == InitLayout /\ [][NextLayout]_vars

(***************************************************************************)
(* Vocabulary of the properties.                                           *)
(***************************************************************************)
RECURSIVE Closure(_, _)
Closure(store, S) ==
  LET more == S \cup UNION {Range(store[n].prerequisites) : n \in S \cap DOMAIN store}
  IN IF more = S THEN S ELSE Closure(store, more)

\* the direct and transitive prerequisites of stored note b
TransitivePrerequisites(store, b) == Closure(store, Range(store[b].prerequisites))

DeletionSucceeded(response) == response.op = "deleteNote" /\ response.status = 200

\* the edges of a derived graph that point at node id
Inbound(edges, id) == SelectSeq(edges, LAMBDA e : e.target = id)

\* the node ids a derived graph reaches from the ids of S along its edges
RECURSIVE ReachedFrom(_, _)
ReachedFrom(edges, S) ==
  LET more == S \cup {edges[i].target : i \in {j \in 1..Len(edges) : edges[j].source \in S}}
  IN IF more = S THEN S ELSE ReachedFrom(edges, more)

(***************************************************************************)
(* C1.  After a successful deleteNote(X), no remaining note's prerequisite *)
(* list contains X.                                                        *)
(***************************************************************************)
C1_NoReferenceToDeleted ==
  DeletionSucceeded(last) =>
    \A n \in StoredNotes : ~Includes(notes[n].prerequisites, last.id)

(***************************************************************************)
(* C2.  In every reachable store state no note's prerequisite list         *)
(* contains the note's own id.                                             *)
(***************************************************************************)
C2_NoSelfReference ==
  \A n \in StoredNotes : ~Includes(notes[n].prerequisites, n)

(***************************************************************************)
(* C3.  For every remaining note D that listed X when deleteNote(X)        *)
(* started, D's list afterwards is, as a set, (D's previous prerequisites  *)
(* minus X) united with X's previous prerequisites, and holds no id twice. *)
(***************************************************************************)
C3_DeletionSplice ==
  [][DeletionSucceeded(last') =>
       \A D \in StoredNotes \ {last'.id} :
         Includes(notes[D].prerequisites, last'.id) =>
           /\ Range(notes'[D].prerequisites) =
                (Range(notes[D].prerequisites) \ {last'.id})
                  \cup Range(notes[last'.id].prerequisites)
           /\ NoDuplicates(notes'[D].prerequisites)]_vars

\* a deletion spliced a dependent: the deleted note had prerequisites, and a
\* note that listed it is stored with every one of them and without it
C3_Witness ==
  /\ DeletionSucceeded(last)
  /\ last.inherited # <<>>
  /\ \E D \in Range(last.dependents) \cap StoredNotes :
       /\ Range(last.inherited) \subseteq Range(notes[D].prerequisites)
       /\ ~Includes(notes[D].prerequisites, last.id)
       /\ ~Includes(notes[D].prerequisites, D)

(***************************************************************************)
(* C4.  deleteNote(X) preserves transitive reachability among the          *)
(* remaining notes: if A was a direct or transitive prerequisite of B      *)
(* before the deletion (A, B other than X), it still is after it.          *)
(***************************************************************************)
C4_ReachabilityPreserved ==
  [][DeletionSucceeded(last') =>
       \A A, B \in StoredNotes \ {last'.id} :
         A \in TransitivePrerequisites(notes, B) =>
           A \in TransitivePrerequisites(notes', B)]_vars

\* a deletion took a note out of a chain: a dependent reaches, through the
\* inherited list, a stored note that is not itself
C4_Witness ==
  /\ DeletionSucceeded(last)
  /\ \E B \in Range(last.dependents) \cap StoredNotes :
       \E A \in (Range(last.inherited) \cap StoredNotes) \ {B} :
         A \in TransitivePrerequisites(notes, B)

(***************************************************************************)
(* C5.  The prerequisite relation over stored notes is acyclic: no note is *)
(* a direct or transitive prerequisite of itself.                          *)
(***************************************************************************)
C5_Acyclic ==
  \A n \in StoredNotes : n \notin TransitivePrerequisites(notes, n)

(***************************************************************************)
(* C6.  Whole graph: for every note n and topic T of n, the inbound edges  *)
(* of node (n,T) are exactly one edge from (p,T) for each prerequisite p   *)
(* of n that belongs to T when there is such a p, and otherwise exactly    *)
(* one edge from topic node T; never both.                                 *)
(***************************************************************************)
SameTopicPrerequisites(n, T) ==
  {p \in Range(notes[n].prerequisites) \cap StoredNotes : T \in Range(notes[p].topics)}

C6_WholeGraphInbound ==
  \A n \in StoredNotes : \A T \in Range(notes[n].topics) :
    LET inbound == Inbound(getGraph.edges, <<n, T>>)
        sameTopic == SameTopicPrerequisites(n, T)
    IN IF sameTopic # {}
       THEN /\ Len(inbound) = Cardinality(sameTopic)
            /\ \A p \in sameTopic : \E i \in 1..Len(inbound) : inbound[i].source = <<p, T>>
       ELSE /\ Len(inbound) = 1
            /\ inbound[1].source = <<T>>

\* one note hangs under a same-topic prerequisite in one of its topics and
\* under the topic itself in another, although it has prerequisites
C6_Witness ==
  \E n \in StoredNotes : \E T, U \in Range(notes[n].topics) :
    /\ SameTopicPrerequisites(n, T) # {}
    /\ SameTopicPrerequisites(n, U) = {}

(***************************************************************************)
(* C7.  Whole graph: the nodes are exactly one topic node per stored topic *)
(* plus one node per (note, topic) membership pair; a note in N topics     *)
(* yields N note nodes with pairwise distinct ids, each carrying the note  *)
(* id.                                                                     *)
(***************************************************************************)
C7_WholeGraphNodes ==
  LET nodes == getGraph.nodes
      noteNodes(n) == {i \in 1..Len(nodes) : nodes[i].type = "note" /\ nodes[i].noteId = n}
  IN /\ NoDuplicates([i \in 1..Len(nodes) |-> nodes[i].id])
     /\ \A T \in StoredTopics :
          \E i \in 1..Len(nodes) : nodes[i].id = <<T>> /\ nodes[i].type = "topic"
     /\ Cardinality({i \in 1..Len(nodes) : nodes[i].type = "topic"}) = Cardinality(StoredTopics)
     /\ \A n \in StoredNotes :
          /\ Cardinality(noteNodes(n)) = Cardinality(Range(notes[n].topics))
          /\ \A T \in Range(notes[n].topics) :
               \E i \in noteNodes(n) : nodes[i].id = <<n, T>>
     /\ \A i \in 1..Len(nodes) : nodes[i].type = "note" => nodes[i].noteId \in StoredNotes

\* a note that belongs to two topics, next to a note that belongs to one
C7_Witness ==
  /\ \E n \in StoredNotes : Cardinality(Range(notes[n].topics)) = 2
  /\ \E n \in StoredNotes : Cardinality(Range(notes[n].topics)) = 1
  /\ Len(getGraph.nodes) >= 5

(***************************************************************************)
(* C8.  Topic graph: every emitted node is reachable from the topic node   *)
(* by following emitted edges from source to target.                       *)
(***************************************************************************)
C8_TopicGraphConnected ==
  \A T \in StoredTopics :
    LET g == getGraphByTopic(T)
    IN {g.nodes[i].id : i \in 1..Len(g.nodes)} \subseteq ReachedFrom(g.edges, {<<T>>})

(***************************************************************************)
(* C9.  Topic graph for T: a member note with an empty prerequisite list   *)
(* has exactly one inbound edge, from T; a member note with a non-empty    *)
(* prerequisite list has exactly one inbound edge per prerequisite and no  *)
(* edge from T.                                                            *)
(***************************************************************************)
C9_TopicGraphInbound ==
  \A T \in StoredTopics : \A n \in StoredNotes :
    T \in Range(notes[n].topics) =>
      LET inbound == Inbound(getGraphByTopic(T).edges, <<n>>)
          prerequisites == notes[n].prerequisites
      IN IF prerequisites = <<>>
         THEN Len(inbound) = 1 /\ inbound[1].source = <<T>>
         ELSE /\ Len(inbound) = Len(prerequisites)
              /\ \A p \in Range(prerequisites) :
                   \E i \in 1..Len(inbound) : inbound[i].source = <<p>>
              /\ \A i \in 1..Len(inbound) : inbound[i].source # <<T>>

(***************************************************************************)
(* C10.  Topic graph: every external prerequisite node with no inbound     *)
(* edge after the prerequisite edges are built receives exactly one        *)
(* fallback edge from the topic, and no fallback edge is added to a node   *)
(* that already has an inbound edge.                                       *)
(***************************************************************************)
\* the edges the post-pass appended
FallbackEdges(g) == SubSeq(g.edges, Len(g.prereqEdges) + 1, Len(g.edges))

IsExternal(T, node) ==
  node.type = "note" /\ ~(node.noteId \in StoredNotes /\ T \in Range(notes[node.noteId].topics))

C10_ExternalFallback ==
  \A T \in StoredTopics :
    LET g == getGraphByTopic(T)
        added == FallbackEdges(g)
    IN /\ SubSeq(g.edges, 1, Len(g.prereqEdges)) = g.prereqEdges
       /\ \A i \in 1..Len(g.nodes) :
            LET node == g.nodes[i]
            IN IF IsExternal(T, node) /\ Inbound(g.prereqEdges, node.id) = <<>>
               THEN /\ Len(Inbound(added, node.id)) = 1
                    /\ Inbound(added, node.id)[1].source = <<T>>
               ELSE Inbound(added, node.id) = <<>>

\* a topic view that borrows a prerequisite from outside the topic, next to
\* a member that has inbound prerequisite edges
C10_Witness ==
  \E T \in StoredTopics :
    LET g == getGraphByTopic(T)
    IN /\ \E i \in 1..Len(g.nodes) : IsExternal(T, g.nodes[i])
       /\ Len(FallbackEdges(g)) >= 1
       /\ \E i \in 1..Len(g.nodes) :
            g.nodes[i].type = "note" /\ Inbound(g.prereqEdges, g.nodes[i].id) # <<>>

(***************************************************************************)
(* C11.  In every reachable store state no note's prerequisite list holds  *)
(* an id twice, and neither derivation emits two edges with the same       *)
(* (source, target) pair or the same edge id.                              *)
(***************************************************************************)
EdgeIdsUnique(edges) == NoDuplicates([i \in 1..Len(edges) |-> edges[i].id])

EdgePairsUnique(edges) ==
  NoDuplicates([i \in 1..Len(edges) |-> <<edges[i].source, edges[i].target>>])

C11_NoDuplicateEdges ==
  /\ \A n \in StoredNotes : NoDuplicates(notes[n].prerequisites)
  /\ EdgeIdsUnique(getGraph.edges)
  /\ EdgePairsUnique(getGraph.edges)
  /\ \A T \in StoredTopics :
       /\ EdgeIdsUnique(getGraphByTopic(T).edges)
       /\ EdgePairsUnique(getGraphByTopic(T).edges)

\* a member note with two prerequisites of its topic: both derivations emit
\* two prerequisite edges into it
C11_Witness ==
  \E T \in StoredTopics : \E n \in StoredNotes :
    /\ Len(notes[n].prerequisites) >= 2
    /\ Len(Inbound(getGraph.edges, <<n, T>>)) >= 2
    /\ Len(Inbound(getGraphByTopic(T).edges, <<n>>)) >= 2

(***************************************************************************)
(* C12.  The add-next step of handleSaveLinks(note, next) writes nothing   *)
(* when next is note or note is already listed by next; otherwise it       *)
(* writes to next, and to no other note, next's list without the ids that  *)
(* are also prerequisites of note, followed by note's id.  The step starts *)
(* from the store the add-prerequisite step left.                          *)
(***************************************************************************)
C12_AddNext ==
  [][last'.op = "saveLinks" => \A p \in 0..MaxNotes, x \in NoteIds :
       LET n == last'.id
           before == SavePrerequisite(notes, n, p)
       IN (handleSaveLinks(n, p, x) /\ before.status = 200) =>
            IF x = n \/ Includes(before.store[x].prerequisites, n)
            THEN notes' = before.store
            ELSE /\ notes'[x].prerequisites =
                      Append(SelectSeq(before.store[x].prerequisites,
                                       LAMBDA q : ~Includes(before.store[n].prerequisites, q)),
                             n)
                 /\ \A m \in StoredNotes \ {x} : notes'[m] = before.store[m]]_vars

(***************************************************************************)
(* C13.  The add-prerequisite step of handleSaveLinks(note, prereq) writes *)
(* nothing when prereq is note or is already in note's list; otherwise     *)
(* note's new list is its previous list with prereq appended at the end.   *)
(***************************************************************************)
C13_AddPrerequisite ==
  [][last'.op = "saveLinks" => \A p \in NoteIds :
       LET n == last'.id
       IN handleSaveLinks(n, p, 0) =>
            IF p = n \/ Includes(notes[n].prerequisites, p)
            THEN notes' = notes
            ELSE notes' = [notes EXCEPT ![n].prerequisites = Append(notes[n].prerequisites, p)]]_vars

(***************************************************************************)
(* C14.  A request that names a note's own id among its prerequisites is   *)
(* rejected before persistence: PUT /api/notes/:id with such a list, and   *)
(* the link modal's save with the note itself as prerequisite, end in an   *)
(* error outcome and leave the store as it was.                            *)
(***************************************************************************)
C14_SelfReferenceRejected ==
  [][/\ last'.op = "updateNote" =>
          \A ts \in TopicInputs, ps \in PrereqInputs :
            (Includes(ps, last'.id) /\ updateNote(last'.id, ts, ps)) =>
              (last'.status # 200 /\ notes' = notes)
     /\ last'.op = "saveLinks" =>
          \A x \in 0..MaxNotes :
            handleSaveLinks(last'.id, last'.id, x) =>
              (last'.status # 200 /\ notes' = notes)]_vars

(***************************************************************************)
(* C15.  When the store update of one dependent fails during               *)
(* deleteNote(X), the request answers with an error and the lists already  *)
(* rewritten for the earlier dependents keep their value: the failing step *)
(* writes nothing.                                                         *)
(***************************************************************************)
C15_NoRollback ==
  [][\A c \in 1..Len(calls) :
       (calls[c].op = "deleteNote" /\ calls[c].pc = "update" /\ calls'[c].pc = "done") =>
         /\ calls'[c].status >= 400
         /\ \A k \in 1..(calls[c].i - 1) :
              LET D == calls[c].dependents[k].id
              IN D \in StoredNotes => D \in DOMAIN notes' /\ notes'[D] = notes[D]]_vars

\* a deletion failed at its second dependent: the first dependent is stored
\* with its rewritten list, which is not the list it had, and X is stored
C15_Witness ==
  \E c \in 1..Len(calls) :
    LET call == calls[c]
    IN /\ call.op = "deleteNote"
       /\ call.pc = "done"
       /\ call.status = 500
       /\ call.i >= 2
       /\ call.id \in StoredNotes
       /\ LET first == call.dependents[1]
          IN /\ first.id \in StoredNotes
             /\ notes[first.id].prerequisites =
                  UpdatedPrerequisites(first.prerequisites, call.id, call.inherited)
             /\ notes[first.id].prerequisites # first.prerequisites

(***************************************************************************)
(* C16.  deleteNote(id) for an id that is not a stored note answers        *)
(* not-found and leaves every note and every link record unchanged.        *)
(***************************************************************************)
C16_DeleteNotFound ==
  [][(last'.op = "deleteNote" /\ last'.id \notin StoredNotes) =>
       /\ last'.status = 404
       /\ notes' = notes
       /\ links' = links]_vars

\* not-found was answered over a store that holds a note and a link record
C16_Witness ==
  /\ last.op = "deleteNote"
  /\ last.status = 404
  /\ last.id \notin StoredNotes
  /\ StoredNotes # {}
  /\ links # {}

(***************************************************************************)
(* C17.  deleteNote(X) is a one-hop splice: the remaining notes whose      *)
(* prerequisite list it changes are exactly the notes that listed X when   *)
(* it started, and it leaves the topics of every remaining note, and the   *)
(* whole document of every other remaining note, unchanged.                *)
(***************************************************************************)
C17_OneHopFrame ==
  [][DeletionSucceeded(last') =>
       \A n \in StoredNotes \ {last'.id} :
         /\ n \in DOMAIN notes'
         /\ notes'[n].topics = notes[n].topics
         /\ (notes'[n].prerequisites # notes[n].prerequisites)
              <=> Includes(notes[n].prerequisites, last'.id)]_vars

(***************************************************************************)
(* C18.  Whenever a run of a graph-view handler (handleSaveLinks,          *)
(* handleSaveTopics, handleDeleteNote) has changed the stored notes, the   *)
(* handler calls onGraphChange before it returns.                          *)
(***************************************************************************)
C18_RefetchAfterChange ==
  [][(last'.op \in {"saveLinks", "saveTopics", "deleteFromGraph"} /\ notes' # notes) =>
       last'.refetch]_vars

C20_NoDanglingAfterOverlap ==
  (\A c \in 1..Len(calls) : calls[c].pc = "done" /\ calls[c].status # 500) =>
    \A n \in StoredNotes : Range(notes[n].prerequisites) \subseteq StoredNotes

(***************************************************************************)
(* Vocabulary of the layout properties, stated over the graph data alone.  *)
(***************************************************************************)
RECURSIVE DistanceFrom(_, _, _, _, _)
DistanceFrom(edges, frontier, seen, id, d) ==
  IF id \in frontier THEN d
  ELSE IF frontier = {} THEN 0 - 1
  ELSE LET out == {i \in 1..Len(edges) : edges[i].source \in frontier}
           next == {edges[i].target : i \in out} \ (seen \cup frontier)
       IN DistanceFrom(edges, next, seen \cup frontier, id, d + 1)

\* the number of edges on a shortest path, -1 when there is none
Distance(edges, from, to) == DistanceFrom(edges, {from}, {}, to, 0)

RootIds(data) ==
  LET roots == SelectSeq(data.nodes,
                 LAMBDA n : \A i \in 1..Len(data.edges) : data.edges[i].target # n.id)
  IN [k \in 1..Len(roots) |-> roots[k].id]

\* the roots whose traversal reaches id, as indexes of RootIds
RootsReaching(data, id) ==
  LET roots == RootIds(data)
  IN {k \in 1..Len(roots) : Distance(data.edges, roots[k], id) >= 0}

FirstRoot(data, id) ==
  LET reaching == RootsReaching(data, id)
  IN CHOOSE k \in reaching : \A j \in reaching : k <= j

LevelCount(data, root, d) ==
  Cardinality({id \in LayoutIds : Distance(data.edges, root, id) = d})

HeightOf(data, options, root) ==
  LET distances == {<<id, Distance(data.edges, root, id)>> : id \in LayoutIds}
      counts == {Cardinality({p \in distances : p[2] = d}) : d \in 0..Cardinality(LayoutIds)}
      widest == CHOOSE c \in counts : \A other \in counts : other <= c
  IN IF widest * options.nodeSpacing >= options.nodeSpacing
     THEN widest * options.nodeSpacing ELSE options.nodeSpacing

\* where the band of the k-th root starts: every root is its own first root,
\* so every earlier root has positioned a node and moved the next band down
RECURSIVE TopOf(_, _, _)
TopOf(data, options, k) ==
  IF k = 1 THEN 100
  ELSE TopOf(data, options, k - 1) + HeightOf(data, options, RootIds(data)[k - 1]) + 80

\* the defined ids among the positioned nodes
DrawnIds == {view.tree.nodes[i].id : i \in 1..Len(view.tree.nodes)} \ {Undefined}

DrawnNode(id) == Lookup(view.tree.nodes, id)

\* C21: the positioned nodes carry pairwise distinct ids, and each has the
\* coordinates that the first root reaching it, in the order of the node list,
\* gives it when that root's tree is laid out at the top of that root's band.
C21_PositionedOnce ==
  view.drawn =>
    /\ \A i, j \in 1..Len(view.tree.nodes) :
         (i # j /\ view.tree.nodes[i].id # Undefined)
           => view.tree.nodes[i].id # view.tree.nodes[j].id
    /\ \A id \in DrawnIds :
         LET k == FirstRoot(view.data, id)
             rootNode == [id |-> RootIds(view.data)[k]]
             alone == TreeNodes(view.data, view.options, rootNode, {},
                                TopOf(view.data, view.options, k)).nodes
         IN /\ RootsReaching(view.data, id) # {}
            /\ \E i \in 1..Len(alone) :
                 /\ alone[i].key = id
                 /\ alone[i].x = DrawnNode(id).x
                 /\ alone[i].y = DrawnNode(id).y

\* a drawn node that two roots reach
C21_Witness ==
  /\ view.drawn
  /\ \E id \in DrawnIds : Cardinality(RootsReaching(view.data, id)) >= 2

\* the position of id among the ids of its level, in the order the traversal
\* from root took them, counted from 0
IndexInLevel(data, root, id) ==
  LET treeNodes == Traverse(data.edges, <<[id |-> root, level |-> 0]>>, <<>>)
      at == CHOOSE i \in 1..Len(treeNodes) : treeNodes[i].id = id
  IN Cardinality({i \in 1..(at - 1) : treeNodes[i].level = treeNodes[at].level})

\* C22: every input node without an incoming edge is a root and is positioned;
\* a positioned node at shortest distance d from the root that positioned it
\* has x = 100 + levelSpacing * d and y = startY + index * nodeSpacing, with
\* startY = treeTop + (treeHeight - (count - 1) * nodeSpacing) / 2, count the
\* number of ids at distance d from that root and treeHeight the larger of
\* nodeSpacing * (the largest such count) and nodeSpacing.
C22_Coordinates ==
  view.drawn =>
    /\ \A i \in 1..Len(RootIds(view.data)) : RootIds(view.data)[i] \in DrawnIds
    /\ \A id \in DrawnIds :
         LET k == FirstRoot(view.data, id)
             root == RootIds(view.data)[k]
             d == Distance(view.data.edges, root, id)
             count == LevelCount(view.data, root, d)
             treeHeight == HeightOf(view.data, view.options, root)
             treeTop == TopOf(view.data, view.options, k)
             startY == treeTop + (treeHeight - (count - 1) * view.options.nodeSpacing) \div 2
         IN /\ DrawnNode(id).x = 100 + view.options.levelSpacing * d
            /\ DrawnNode(id).y =
                 startY + IndexInLevel(view.data, root, id) * view.options.nodeSpacing

\* a node positioned under a later root, below another id of its level
C22_Witness ==
  /\ view.drawn
  /\ \E id \in DrawnIds :
       LET k == FirstRoot(view.data, id)
           root == RootIds(view.data)[k]
           d == Distance(view.data.edges, root, id)
       IN /\ k >= 2
          /\ d >= 1
          /\ LevelCount(view.data, root, d) >= 2
          /\ IndexInLevel(view.data, root, id) >= 1

\* the ids of the node list that some root reaches
InputIds(data) == {data.nodes[i].id : i \in 1..Len(data.nodes)}

Positionable(data) == {id \in InputIds(data) : RootsReaching(data, id) # {}}

\* the input edges between two such ids, in input order
KeptEdges(data) ==
  LET positionable == Positionable(data)
  IN SelectSeq(data.edges,
               LAMBDA e : e.source \in positionable /\ e.target \in positionable)

\* C23: the links are the input edges whose two endpoints are in the node list
\* and reached from a root, in input order, and each end of a link is the
\* positioned node of that id; every other edge is dropped.
C23_Links ==
  view.drawn =>
    LET kept == KeptEdges(view.data)
    IN /\ Len(view.tree.links) = Len(kept)
       /\ \A i \in 1..Len(view.tree.links) :
            /\ view.tree.links[i].source \in Range(view.tree.nodes)
            /\ view.tree.links[i].target \in Range(view.tree.nodes)
            /\ view.tree.links[i].source.id = kept[i].source
            /\ view.tree.links[i].target.id = kept[i].target

\* a drawing that keeps an edge, drops an edge with an end absent from the
\* node list and drops an edge with an end no root reaches
C23_Witness ==
  /\ view.drawn
  /\ Len(view.tree.links) >= 1
  /\ \E i, j \in 1..Len(view.data.edges) :
       /\ {view.data.edges[i].source, view.data.edges[i].target} \ InputIds(view.data) # {}
       /\ {view.data.edges[j].source, view.data.edges[j].target} \subseteq InputIds(view.data)
       /\ {view.data.edges[j].source, view.data.edges[j].target} \ Positionable(view.data) # {}

\* C29: with an even positive nodeSpacing and a positive levelSpacing, no two
\* positioned nodes have the same x and y, and a node positioned under a later
\* root lies at least 80 below every node positioned under an earlier root.
C29_NoOverlap ==
  (/\ view.drawn
   /\ view.options.nodeSpacing > 0
   /\ view.options.nodeSpacing % 2 = 0
   /\ view.options.levelSpacing > 0) =>
    /\ \A i, j \in 1..Len(view.tree.nodes) :
         i # j => \/ view.tree.nodes[i].x # view.tree.nodes[j].x
                  \/ view.tree.nodes[i].y # view.tree.nodes[j].y
    /\ LET owner == [id \in DrawnIds |-> FirstRoot(view.data, id)]
       IN \A a, b \in DrawnIds :
            owner[a] < owner[b] => DrawnNode(b).y - DrawnNode(a).y >= 80

\* two roots that each positioned a node besides themselves
C29_Witness ==
  /\ view.drawn
  /\ \E a, b \in DrawnIds :
       /\ FirstRoot(view.data, a) < FirstRoot(view.data, b)
       /\ a \notin Range(RootIds(view.data))
       /\ b \notin Range(RootIds(view.data))

\* C26: every edge of the whole graph has its source id and its target id
\* among the ids of the nodes of the whole graph.
C26_EdgesHaveEndpoints ==
  LET graph == getGraph
      nodeIds == {graph.nodes[i].id : i \in 1..Len(graph.nodes)}
  IN \A i \in 1..Len(graph.edges) :
       /\ graph.edges[i].source \in nodeIds
       /\ graph.edges[i].target \in nodeIds

\* every prerequisite of every member note of the topic is a member of it
SelfContained(topicId) ==
  \A n \in Range(TopicNotes(topicId)) :
    Range(notes[n].prerequisites) \subseteq Range(TopicNotes(topicId))

\* a node id of the topic graph as the id the whole graph gives that node
Composite(id, topicId) == IF id = <<topicId>> THEN id ELSE <<id[1], topicId>>

\* the ids of the whole graph that belong to the topic
InTopicPart(id, topicId) == id = <<topicId>> \/ (Len(id) = 2 /\ id[2] = topicId)

\* C27: for a stored topic whose member notes have all their prerequisites
\* among its members, the topic graph, with each note id n written (n, T), has
\* the nodes and the (source, target) edges of the part of the whole graph
\* made of topic node T and the nodes (n, T).
C27_ModesAgree ==
  \A topicId \in StoredTopics :
    SelfContained(topicId) =>
      LET scoped == getGraphByTopic(topicId)
          whole == getGraph
      IN /\ {Composite(scoped.nodes[i].id, topicId) : i \in 1..Len(scoped.nodes)}
              = {whole.nodes[i].id : i \in {j \in 1..Len(whole.nodes) :
                                              InTopicPart(whole.nodes[j].id, topicId)}}
         /\ {<<Composite(scoped.edges[i].source, topicId),
               Composite(scoped.edges[i].target, topicId)>> : i \in 1..Len(scoped.edges)}
              = {<<whole.edges[i].source, whole.edges[i].target>> :
                   i \in {j \in 1..Len(whole.edges) :
                            InTopicPart(whole.edges[j].target, topicId)}}

\* a self-contained stored topic with a member that has a prerequisite, and a
\* note outside the topic
C27_Witness ==
  \E topicId \in StoredTopics :
    /\ SelfContained(topicId)
    /\ \E n \in Range(TopicNotes(topicId)) : notes[n].prerequisites # <<>>
    /\ \E n \in StoredNotes : n \notin Range(TopicNotes(topicId))

\* C28: when the add-next step of handleSaveLinks(note, next) succeeds, every
\* stored note that was a direct or transitive prerequisite of next in the
\* store the step started from is one in the store it leaves.
C28_AddNextKeepsReachability ==
  [][(last'.op = "saveLinks" /\ last'.status = 200) =>
       \A p \in 0..MaxNotes, x \in NoteIds :
         LET n == last'.id
             before == SavePrerequisite(notes, n, p)
         IN (handleSaveLinks(n, p, x) /\ before.status = 200) =>
              (TransitivePrerequisites(before.store, x) \cap StoredNotes)
                \subseteq TransitivePrerequisites(notes', x)]_vars

\* one uninterrupted deleteNote(id) on a store: id is removed, and every note
\* that listed id lists its other prerequisites followed by those of id that
\* it did not list already
Spliced(store, id) ==
  [n \in DOMAIN store \ {id} |->
     IF Includes(store[n].prerequisites, id)
     THEN LET kept == SelectSeq(store[n].prerequisites, LAMBDA p : p # id)
          IN [store[n] EXCEPT !.prerequisites =
                kept \o SelectSeq(Unique(store[id].prerequisites),
                                  LAMBDA q : ~Includes(kept, q))]
     ELSE store[n]]

\* the first request failed after rewriting some dependents and before the rest
FailedPartWay(call) ==
  /\ call.op = "deleteNote"
  /\ call.pc = "done"
  /\ call.status = 500
  /\ call.i > 1

\* C30: when deleteNote(X) has failed after rewriting some of the dependents,
\* X is still stored; and when a second deleteNote(X), the next request, has
\* succeeded, the store is the one an uninterrupted deleteNote(X) makes of the
\* original store.
C30_RetryCompletes ==
  /\ (Len(calls) = 1 /\ FailedPartWay(calls[1])) => calls[1].id \in StoredNotes
  /\ (/\ Len(calls) = 2
      /\ FailedPartWay(calls[1])
      /\ calls[2].op = "deleteNote"
      /\ calls[2].id = calls[1].id
      /\ calls[2].pc = "done"
      /\ calls[2].status = 200) => notes = Spliced(RetryStore, calls[1].id)

\* a deletion that failed part way and was completed by the next request
C30_Witness ==
  /\ Len(calls) = 2
  /\ FailedPartWay(calls[1])
  /\ calls[2].id = calls[1].id
  /\ calls[2].pc = "done"
  /\ calls[2].status = 200
  /\ RetryStore[calls[1].id].prerequisites # <<>>

\* C25: the step that completes handleSaveDirect for prerequisiteOf = E keeps
\* every stored note that was a direct or transitive prerequisite of E a
\* direct or transitive prerequisite of E, whether the save button was used
\* before or after loadPrerequisite resolved.
C25_InsertPreviousKeepsPrerequisites ==
  [][\A c \in 1..Len(calls) :
       (/\ calls[c].op = "handleSaveDirect"
        /\ calls[c].pc # "done"
        /\ calls'[c].pc = "done"
        /\ calls[c].id \in StoredNotes) =>
         (TransitivePrerequisites(notes, calls[c].id) \cap StoredNotes)
           \subseteq TransitivePrerequisites(notes', calls[c].id)]_vars

====
